---- MODULE Spec2Model ----
(***************************************************************************)
(* PyTASA: conversion between the 6x6 Voigt matrix and the 3x3x3x3 tensor  *)
(* form of an elastic stiffness (rotate.py), rotation of either form, and  *)
(* the Backus average of a stack of layers (effective_medium.py).          *)
(*                                                                         *)
(* Arrays are functions from index tuples (0-based, as in the source) to   *)
(* numbers.  The rotation part works on integers: angles are counted in    *)
(* quarter turns, where cos and sin are exactly -1, 0 or 1.                *)
(***************************************************************************)
EXTENDS Integers, Sequences, FiniteSets, TLC

VARIABLES orig,   \* the array the caller started with
          arg,    \* the array passed to the last call
          C,      \* the caller's current array: [shape, data]
          R,      \* the 3x3 rotation matrix in use
          hist,   \* the calls made so far, oldest first
          angles, \* <<alpha, beta, gamma>> in quarter turns
          order,  \* the order argument, a function on 0..2
          out,    \* outcome of the last top-level call: returned value or raised error
          layers, \* Backus input: [f |-> fractions, c |-> layer matrices]
          nread   \* number of layer entries backus_monoclin has read

vars == <<orig, arg, C, R, hist, angles, order, out, layers, nread>>

\* ---------------------------------------------------------------- bounds
MaxVal == 1
MaxTurn == 3
MaxCalls == 2
MaxLayers == 2

\* ---------------------------------------------------------------- arrays
I3 == 0..2
I6 == 0..5
Idx2 == I3 \X I3
Idx4 == I3 \X I3 \X I3 \X I3
Voigt2 == I6 \X I6

Array(shape, data) == [shape |-> shape, data |-> data]

\* A function on 1..n as an explicit tuple (the same value, held as a sequence).
Tuple(f) == <<>> \o f

\* Python evaluates an argument once, before the call, and an assignment once: F of
\* the value of v (of v and w), rather than of the expression that gives it.
Let(v, F(_)) == CHOOSE r \in {F(x) : x \in {v}} : TRUE
Let2(v, w, F(_, _)) == CHOOSE r \in {F(x, y) : x \in {v}, y \in {w}} : TRUE

\* Row-major offset of an index of a (3, 3, 3, 3) array, and the index at an offset.
Flat4(q) == 27 * q[1] + 9 * q[2] + 3 * q[3] + q[4]
Unflat4(n) == <<n \div 27, (n \div 9) % 3, (n \div 3) % 3, n % 3>>

\* Row-major offset of an index of a (6, 6) array, and the index at an offset.
Flat2(p) == 6 * p[1] + p[2]

\* np.zeros((6, 6)) and np.zeros((3, 3, 3, 3))
zeros66 == [p \in Voigt2 |-> 0]
zeros3333 == [q \in Idx4 |-> 0]

\* ---------------------------------------------------------------- ij2I
None == "None"

ij2I(i, j) ==
  IF i = 0 /\ j = 0 THEN 0
  ELSE IF i = 1 /\ j = 1 THEN 1
  ELSE IF i = 2 /\ j = 2 THEN 2
  ELSE IF (i = 1 /\ j = 2) \/ (i = 2 /\ j = 1) THEN 3
  ELSE IF (i = 0 /\ j = 2) \/ (i = 2 /\ j = 0) THEN 4
  ELSE IF (i = 0 /\ j = 1) \/ (i = 1 /\ j = 0) THEN 5
  ELSE None

\* ---------------------------------------------------------------- cijkl2cij
\* The n-th iteration (n = 0..80) of the four nested range(3) loops visits (i, j, k, l).
LoopIndex(n) == Unflat4(n)

SetMax(S) == CHOOSE m \in S : \A k \in S : k <= m

\* Iterations 0..last of the loop: each stores C[i, j, k, l] at CC[I, J], overwriting
\* what was there, so CC[I, J] ends as the value the last such iteration stored, and
\* stays the zero of np.zeros((6, 6)) where none did.
cijkl2cij_loop(T, last) ==
  [p \in Voigt2 |->
     LET writes == {n \in 0..last : LET q == LoopIndex(n) IN
                      ij2I(q[1], q[2]) = p[1] /\ ij2I(q[3], q[4]) = p[2]}
     IN  IF writes = {} THEN zeros66[p] ELSE T[LoopIndex(SetMax(writes))]]

\* the loop stopping one iteration short of the last tensor index
cijkl2cij_short(T) == cijkl2cij_loop(T, 79)

cijkl2cij(T) == cijkl2cij_loop(T, 80)

\* ---------------------------------------------------------------- cij2cijkl
\* The assignments of cij2cijkl in program order: <<target, "C", source>> reads the
\* Voigt matrix, <<target, "CC", source>> copies an entry already written.
cij2cijkl_table == <<
     <<<<0,0,0,0>>, "C", <<0,0>>>>, <<<<1,1,1,1>>, "C", <<1,1>>>>,
     <<<<2,2,2,2>>, "C", <<2,2>>>>, <<<<1,2,1,2>>, "C", <<3,3>>>>,
     <<<<2,1,2,1>>, "CC", <<1,2,1,2>>>>, <<<<1,2,2,1>>, "CC", <<1,2,1,2>>>>,
     <<<<2,1,1,2>>, "CC", <<1,2,1,2>>>>, <<<<0,2,0,2>>, "C", <<4,4>>>>,
     <<<<2,0,0,2>>, "CC", <<0,2,0,2>>>>, <<<<0,2,2,0>>, "CC", <<0,2,0,2>>>>,
     <<<<2,0,2,0>>, "CC", <<0,2,0,2>>>>, <<<<0,0,1,1>>, "C", <<0,1>>>>,
     <<<<1,1,0,0>>, "CC", <<0,0,1,1>>>>, <<<<0,0,2,2>>, "C", <<0,2>>>>,
     <<<<2,2,0,0>>, "CC", <<0,0,2,2>>>>, <<<<0,0,1,2>>, "C", <<0,3>>>>,
     <<<<0,0,2,1>>, "CC", <<0,0,1,2>>>>, <<<<1,2,0,0>>, "CC", <<0,0,1,2>>>>,
     <<<<2,1,0,0>>, "CC", <<0,0,1,2>>>>, <<<<0,0,0,2>>, "C", <<0,4>>>>,
     <<<<0,0,2,0>>, "CC", <<0,0,0,2>>>>, <<<<0,2,0,0>>, "CC", <<0,0,0,2>>>>,
     <<<<2,0,0,0>>, "CC", <<0,0,0,2>>>>, <<<<0,0,0,1>>, "C", <<0,5>>>>,
     <<<<0,0,1,0>>, "CC", <<0,0,0,1>>>>, <<<<0,1,0,0>>, "CC", <<0,0,0,1>>>>,
     <<<<1,0,0,0>>, "CC", <<0,0,0,1>>>>, <<<<1,1,2,2>>, "C", <<1,2>>>>,
     <<<<2,2,1,1>>, "CC", <<1,1,2,2>>>>, <<<<1,1,1,2>>, "C", <<1,3>>>>,
     <<<<1,1,2,1>>, "CC", <<1,1,1,2>>>>, <<<<1,2,1,1>>, "CC", <<1,1,1,2>>>>,
     <<<<2,1,1,1>>, "CC", <<1,1,1,2>>>>, <<<<1,1,0,2>>, "C", <<1,4>>>>,
     <<<<1,1,2,0>>, "CC", <<1,1,0,2>>>>, <<<<0,2,1,1>>, "CC", <<1,1,0,2>>>>,
     <<<<2,0,1,1>>, "CC", <<1,1,0,2>>>>, <<<<1,1,0,1>>, "C", <<1,5>>>>,
     <<<<1,1,1,0>>, "CC", <<1,1,0,1>>>>, <<<<0,1,1,1>>, "CC", <<1,1,0,1>>>>,
     <<<<1,0,1,1>>, "CC", <<1,1,0,1>>>>, <<<<2,2,1,2>>, "C", <<2,3>>>>,
     <<<<2,2,2,1>>, "CC", <<2,2,1,2>>>>, <<<<1,2,2,2>>, "CC", <<2,2,1,2>>>>,
     <<<<2,1,2,2>>, "CC", <<2,2,1,2>>>>, <<<<2,2,0,2>>, "C", <<2,4>>>>,
     <<<<2,2,2,0>>, "CC", <<2,2,0,2>>>>, <<<<0,2,2,2>>, "CC", <<2,2,0,2>>>>,
     <<<<2,0,2,2>>, "CC", <<2,2,0,2>>>>, <<<<2,2,0,1>>, "C", <<2,5>>>>,
     <<<<2,2,1,0>>, "CC", <<2,2,0,1>>>>, <<<<0,1,2,2>>, "CC", <<2,2,0,1>>>>,
     <<<<1,0,2,2>>, "CC", <<2,2,0,1>>>>, <<<<1,2,0,2>>, "C", <<3,4>>>>,
     <<<<2,1,0,2>>, "CC", <<1,2,0,2>>>>, <<<<0,2,2,1>>, "CC", <<1,2,0,2>>>>,
     <<<<0,2,1,2>>, "CC", <<1,2,0,2>>>>, <<<<1,2,2,0>>, "CC", <<1,2,0,2>>>>,
     <<<<2,1,2,0>>, "CC", <<1,2,0,2>>>>, <<<<2,0,1,2>>, "CC", <<1,2,0,2>>>>,
     <<<<2,0,2,1>>, "CC", <<1,2,0,2>>>>, <<<<1,2,0,1>>, "C", <<3,5>>>>,
     <<<<2,1,0,1>>, "CC", <<1,2,0,1>>>>, <<<<0,1,1,2>>, "CC", <<1,2,0,1>>>>,
     <<<<0,1,2,1>>, "CC", <<1,2,0,1>>>>, <<<<1,2,1,0>>, "CC", <<1,2,0,1>>>>,
     <<<<2,1,1,0>>, "CC", <<1,2,0,1>>>>, <<<<1,0,1,2>>, "CC", <<1,2,0,1>>>>,
     <<<<1,0,2,1>>, "CC", <<1,2,0,1>>>>, <<<<0,2,0,1>>, "C", <<4,5>>>>,
     <<<<2,0,0,1>>, "CC", <<0,2,0,1>>>>, <<<<0,1,0,2>>, "CC", <<0,2,0,1>>>>,
     <<<<0,1,2,0>>, "CC", <<0,2,0,1>>>>, <<<<0,2,1,0>>, "CC", <<0,2,0,1>>>>,
     <<<<2,0,1,0>>, "CC", <<0,2,0,1>>>>, <<<<1,0,0,2>>, "CC", <<0,2,0,1>>>>,
     <<<<1,0,2,0>>, "CC", <<0,2,0,1>>>>, <<<<0,1,0,1>>, "C", <<5,5>>>>,
     <<<<1,0,0,1>>, "CC", <<0,1,0,1>>>>, <<<<0,1,1,0>>, "CC", <<0,1,0,1>>>>,
     <<<<1,0,1,0>>, "CC", <<0,1,0,1>>>>
  >>

\* The last assignment before the n-th that writes CC[t]; 0 when there is none.
LastWrite(tab, t, n) ==
  LET writes == {m \in 1..(n - 1) : tab[m][1] = t}
  IN  IF writes = {} THEN 0 ELSE SetMax(writes)

\* The value the n-th assignment stores: an entry of the Voigt matrix, or what CC
\* holds at the source index at that point of the program.
RECURSIVE cij2cijkl_value(_, _, _)
cij2cijkl_value(M, tab, n) ==
  LET a == tab[n]
  IN  IF a[2] = "C" THEN M[a[3]]
      ELSE LET m == LastWrite(tab, a[3], n)
           IN  IF m = 0 THEN zeros3333[a[3]] ELSE cij2cijkl_value(M, tab, m)

\* The tensor after all assignments of tab have run on np.zeros((3, 3, 3, 3)).
cij2cijkl_run(M, tab) ==
  [q \in Idx4 |->
     LET m == LastWrite(tab, q, Len(tab) + 1)
     IN  IF m = 0 THEN zeros3333[q] ELSE cij2cijkl_value(M, tab, m)]

\* the table with the assignment of CC[1,2,0,1] (and hence its seven copies) reading
\* C[3,4] in place of C[3,5]
cij2cijkl_wrongsource(M) ==
  cij2cijkl_run(M, Tuple([n \in 1..81 |-> IF cij2cijkl_table[n][1] = <<1, 2, 0, 1>>
                                          THEN <<<<1, 2, 0, 1>>, "C", <<3, 4>>>>
                                          ELSE cij2cijkl_table[n]]))

cij2cijkl(M) == cij2cijkl_run(M, cij2cijkl_table)

\* ---------------------------------------------------------------- rotation_matrix
\* np.cos and np.sin of k quarter turns
cos(k) == CASE k % 4 = 0 -> 1 [] k % 4 = 1 -> 0 [] k % 4 = 2 -> -1 [] OTHER -> 0
sin(k) == CASE k % 4 = 0 -> 0 [] k % 4 = 1 -> 1 [] k % 4 = 2 -> 0 [] OTHER -> -1

Mat3(r0, r1, r2) ==
  [p \in Idx2 |-> (CASE p[1] = 0 -> r0 [] p[1] = 1 -> r1 [] OTHER -> r2)[p[2] + 1]]

\* np.matmul of two 3x3 matrices
matmul(A, B) ==
  [p \in Idx2 |-> A[<<p[1], 0>>] * B[<<0, p[2]>>] + A[<<p[1], 1>>] * B[<<1, p[2]>>]
                  + A[<<p[1], 2>>] * B[<<2, p[2]>>]]

\* the stack R of the three elementary rotations, indexed by axis
elementary(alpha, beta, gamma) ==
  LET ca == cos(alpha)  sa == sin(alpha)
      cb == cos(beta)   sb == sin(beta)
      cg == cos(gamma)  sg == sin(gamma)
  IN  [a \in I3 |->
        CASE a = 0 -> Mat3(<<1, 0, 0>>,    <<0, ca, sa>>,  <<0, -sa, ca>>)
          [] a = 1 -> Mat3(<<cb, 0, -sb>>, <<0, 1, 0>>,    <<sb, 0, cb>>)
          [] OTHER -> Mat3(<<cg, sg, 0>>,  <<-sg, cg, 0>>, <<0, 0, 1>>)]

\* the y rotation written with ca where cb belongs
rotation_matrix_typo(alpha, beta, gamma, ord) ==
  LET ca == cos(alpha)  sa == sin(alpha)
      cb == cos(beta)   sb == sin(beta)
      cg == cos(gamma)  sg == sin(gamma)
      E == [a \in I3 |->
        CASE a = 0 -> Mat3(<<1, 0, 0>>,    <<0, ca, sa>>,  <<0, -sa, ca>>)
          [] a = 1 -> Mat3(<<ca, 0, -sb>>, <<0, 1, 0>>,    <<sb, 0, cb>>)
          [] OTHER -> Mat3(<<cg, sg, 0>>,  <<-sg, cg, 0>>, <<0, 0, 1>>)]
  IN  matmul(E[ord[2]], matmul(E[ord[1]], E[ord[0]]))

rotation_matrix(alpha, beta, gamma, ord) ==
  LET E == elementary(alpha, beta, gamma)
  IN  matmul(E[ord[2]], matmul(E[ord[1]], E[ord[0]]))

\* ---------------------------------------------------------------- rotate_Cijkl
\* R.ravel(): row-major flattening of a 3x3 matrix; entry a is at position a + 1
ravel3(A) == <<A[<<0, 0>>], A[<<0, 1>>], A[<<0, 2>>],
               A[<<1, 0>>], A[<<1, 1>>], A[<<1, 2>>],
               A[<<2, 0>>], A[<<2, 1>>], A[<<2, 2>>]>>

\* np.outer(R, R), flattened row-major: entry x = 9*a + b (at position x + 1) is
\* R.flat[a] * R.flat[b]
outerRR(A) ==
  LET v == ravel3(A)
  IN  Tuple([x \in 1..81 |-> v[((x - 1) \div 9) + 1] * v[((x - 1) % 9) + 1]])

\* np.outer(RR, RR).reshape(4 * R.shape) at the row-major offset n of the index
\* (i0, ..., i7): the first four indices select the row of the 81x81 outer product
\* and the last four its column
RRRR_flat(RR, n) == RR[(n \div 81) + 1] * RR[(n % 81) + 1]

\* row-major stride of axis n of an array of shape (3, 3, 3, 3, 3, 3, 3, 3): 3^(7-n)
Stride8(n) ==
  CASE n = 0 -> 2187 [] n = 1 -> 729 [] n = 2 -> 243 [] n = 3 -> 81
    [] n = 4 -> 27 [] n = 5 -> 9 [] n = 6 -> 3 [] OTHER -> 1

Sum3(F(_)) == F(0) + F(1) + F(2)

\* np.tensordot(RRRR, C, axes) for an 8-axis RRRR and a 4-axis C: axis axes[1][m] of
\* RRRR is summed against axis axes[2][m] of C; the axes of RRRR that are left, in
\* increasing order, index the result
tensordot(RR, T, axes) ==
  LET summed == {axes[1][m] : m \in 1..4}
      free == {n \in 0..7 : n \notin summed}
      freeSeq == Tuple([k \in 1..4 |->
                   CHOOSE n \in free : Cardinality({j \in free : j <= n}) = k])
      cpos == Tuple([n \in 1..4 |-> CHOOSE m \in 1..4 : axes[2][m] = n - 1])
      \* offset into RRRR contributed by the summed indices s and by the result index q,
      \* and the offset into C that s addresses; each tabulated by Flat4 + 1
      soff == Tuple([x \in 1..81 |-> LET s == Unflat4(x - 1) IN
                 s[1] * Stride8(axes[1][1]) + s[2] * Stride8(axes[1][2])
                 + s[3] * Stride8(axes[1][3]) + s[4] * Stride8(axes[1][4])])
      qoff == Tuple([x \in 1..81 |-> LET q == Unflat4(x - 1) IN
                 q[1] * Stride8(freeSeq[1]) + q[2] * Stride8(freeSeq[2])
                 + q[3] * Stride8(freeSeq[3]) + q[4] * Stride8(freeSeq[4])])
      coff == Tuple([x \in 1..81 |-> LET s == Unflat4(x - 1) IN
                 Flat4(<<s[cpos[1]], s[cpos[2]], s[cpos[3]], s[cpos[4]]>>)])
      Tt == Tuple([x \in 1..81 |-> T[Unflat4(x - 1)]])
      res == Tuple([x \in 1..81 |->
               Sum3(LAMBDA a : Sum3(LAMBDA b : Sum3(LAMBDA c : Sum3(LAMBDA d :
                 RRRR_flat(RR, qoff[x] + soff[27 * a + 9 * b + 3 * c + d + 1])
                 * Tt[coff[27 * a + 9 * b + 3 * c + d + 1] + 1]))))])
  IN  [q \in Idx4 |-> res[Flat4(q) + 1]]

\* the last factor of R summed over its second index, the others over their first
rotate_Cijkl_mixedaxes(T, Rm) ==
  tensordot(outerRR(Rm), T, <<<<0, 2, 4, 7>>, <<0, 1, 2, 3>>>>)

rotate_Cijkl(T, Rm) ==
  LET RR == outerRR(Rm)
      axes == <<<<0, 2, 4, 6>>, <<0, 1, 2, 3>>>>
  IN  tensordot(RR, T, axes)

\* ---------------------------------------------------------------- rotate_Cij
rotate_Cij(M, Rm) ==
  LET CT == cij2cijkl(M)
      CRT == rotate_Cijkl(CT, Rm)
      CR == cijkl2cij(CRT)
  IN  CR

\* ---------------------------------------------------------------- rotate_C
\* How a call ends: it returns a value or raises an exception.
Return(v) == [kind |-> "return", value |-> v]
Raise(exc, msg) == [kind |-> "raise", exc |-> exc, msg |-> msg]

\* The entries of its argument that cij2cijkl reads, in program order.
cij2cijkl_reads ==
  LET reading == SelectSeq(cij2cijkl_table, LAMBDA a : a[2] = "C")
  IN  [n \in 1..Len(reading) |-> reading[n][3]]

\* cij2cijkl on a two-dimensional array with six rows: numpy raises IndexError at the
\* first read whose column is outside the array, otherwise the table runs through.
cij2cijkl_2d(Carr) ==
  LET bad == {n \in 1..Len(cij2cijkl_reads) : cij2cijkl_reads[n][2] >= Carr.shape[2]}
      first == CHOOSE n \in bad : \A m \in bad : n <= m
  IN  IF bad # {}
      THEN Raise("IndexError", [index |-> cij2cijkl_reads[first][2], axis |-> 1,
                                size |-> Carr.shape[2]])
      ELSE Return(cij2cijkl(Carr.data))

\* tuple == int in Python: a tuple never equals an int, the comparison is False
PyEqTupleInt(t, n) == FALSE

\* len() of a bool raises TypeError
PyLenBool(b) == Raise("TypeError", "object of type 'bool' has no len()")

rotate_C(Carr, alpha, beta, gamma, ord) ==
  LET Rm == rotation_matrix(alpha, beta, gamma, ord)
      shape == Carr.shape
  IN  IF Len(shape) = 2 /\ shape[1] = 6
      THEN \* Voigt notation: rotate_Cij(C, R)
           LET CT == cij2cijkl_2d(Carr)
           IN  IF CT.kind = "raise" THEN CT
               ELSE Return(Array(<<6, 6>>, cijkl2cij(rotate_Cijkl(CT.value, Rm))))
      ELSE \* the elif condition len(C.shape == 4) and C.shape[0] == 3
           LET n == PyLenBool(PyEqTupleInt(shape, 4))
           IN  IF n.kind = "raise" THEN n
               ELSE IF n.value # 0 /\ shape[1] = 3
               THEN Return(Array(<<3, 3, 3, 3>>, rotate_Cijkl(Carr.data, Rm)))
               ELSE Raise("TypeError", "C must either be in Voigt or Tensor notation")

\* ---------------------------------------------------------------- floating-point values
\* The numbers of effective_medium.py are IEEE doubles.  A value is <<n, d>>: the
\* rational n/d in lowest terms when d > 0, +inf = <<1, 0>>, -inf = <<-1, 0>> and
\* nan = <<0, 0>>.  Finite results are exact (no rounding), and the sign of a zero is
\* not kept: 1/0 is +inf.
RECURSIVE GCD(_, _)
GCD(a, b) == IF b = 0 THEN a ELSE Let(a % b, LAMBDA m : GCD(b, m))
Abs(n) == IF n < 0 THEN -n ELSE n
Sign(n) == IF n > 0 THEN 1 ELSE IF n < 0 THEN -1 ELSE 0

Q(n, d) ==
  Let2(n, d, LAMBDA a, b :
    IF b = 0 THEN <<Sign(a), 0>>
    ELSE Let(GCD(Abs(a), Abs(b)), LAMBDA g : <<Sign(b) * (a \div g), Abs(b) \div g>>))

NaN == <<0, 0>>
Q0 == <<0, 1>>
Q1 == <<1, 1>>
IsFinite(x) == x[2] > 0

\* inf + inf = inf, inf - inf = nan, nan + x = nan, inf + finite = inf; finite sums
\* are formed over the least common denominator
QAdd(a, b) ==
  Let2(a, b, LAMBDA x, y :
    IF x[2] = 0 /\ y[2] = 0 THEN (IF x = y THEN x ELSE NaN)
    ELSE IF x[2] = 0 THEN x
    ELSE IF y[2] = 0 THEN y
    ELSE Let(GCD(x[2], y[2]), LAMBDA g :
           Q(x[1] * (y[2] \div g) + y[1] * (x[2] \div g), (x[2] \div g) * y[2])))
QNeg(a) == Let(a, LAMBDA x : <<-x[1], x[2]>>)
QSub(x, y) == QAdd(x, QNeg(y))
\* 0 * inf = nan, inf * inf = inf; finite products are reduced before multiplying
QMul(a, b) ==
  Let2(a, b, LAMBDA x, y :
    IF x[2] = 0 \/ y[2] = 0 THEN Q(Sign(x[1]) * Sign(y[1]), 0)
    ELSE Let2(GCD(Abs(x[1]), y[2]), GCD(Abs(y[1]), x[2]), LAMBDA g1, g2 :
           <<(x[1] \div g1) * (y[1] \div g2), (x[2] \div g2) * (y[2] \div g1)>>))
\* x ** -1
QInv(a) == Let(a, LAMBDA x : Q(x[2], x[1]))
QDiv(x, y) == QMul(x, QInv(y))
\* x ** 2
QSq(a) == Let(a, LAMBDA x : QMul(x, x))
QAbs(a) == Let(a, LAMBDA x : <<Abs(x[1]), x[2]>>)
\* x == y in IEEE arithmetic: nan equals nothing, itself included
QEq(a, b) == Let2(a, b, LAMBDA x, y : x # NaN /\ y # NaN /\ x = y)

\* ---------------------------------------------------------------- eps
\* eps = abs(7./3 - 4./3 - 1) is 2^-52 in double arithmetic: 1 / (EpsRootDen * EpsRootDen)
EpsRootDen == 67108864

\* x > eps, for x >= 0: n/d > 2^-52, computed without leaving 32-bit integers
GtEps(a) ==
  Let(a, LAMBDA x :
    /\ x # NaN
    /\ x[1] > 0
    /\ \/ x[2] = 0
       \/ x[1] >= 32
       \/ x[1] * EpsRootDen > x[2] \div EpsRootDen)

\* ---------------------------------------------------------------- backus_monoclin
\* arrays with one entry per layer are sequences; the operators below are numpy's
\* element-wise arithmetic on them
VAdd(a, b) == Let2(a, b, LAMBDA x, y : Tuple([n \in 1..Len(x) |-> QAdd(x[n], y[n])]))
VSub(a, b) == Let2(a, b, LAMBDA x, y : Tuple([n \in 1..Len(x) |-> QSub(x[n], y[n])]))
VMul(a, b) == Let2(a, b, LAMBDA x, y : Tuple([n \in 1..Len(x) |-> QMul(x[n], y[n])]))
VDiv(a, b) == Let2(a, b, LAMBDA x, y : Tuple([n \in 1..Len(x) |-> QDiv(x[n], y[n])]))
VSq(a) == Let(a, LAMBDA x : Tuple([n \in 1..Len(x) |-> QSq(x[n])]))
\* num.sum of a one-dimensional array: 0.0 for the empty array
RECURSIVE NumSum(_)
NumSum(a) ==
  Let(a, LAMBDA x :
    IF x = <<>> THEN Q0 ELSE QAdd(NumSum(SubSeq(x, 1, Len(x) - 1)), x[Len(x)]))

\* the arithmetic mean taken where the harmonic one belongs: x in place of 1/x
VRecip_forgotten(x) == x

\* 1/x for an array x
VRecip(a) == Let(a, LAMBDA x : Tuple([n \in 1..Len(x) |-> QDiv(Q1, x[n])]))

\* a mirror assignment that is missing
Mirror_missing(ce, I, J) == ce

\* ce[J, I] = ce[I, J]
Mirror(ce, I, J) == Let(ce, LAMBDA x : [x EXCEPT ![<<J, I>>] = x[<<I, J>>]])

\* the matrix backus_monoclin assembles from the layers, once the input is accepted;
\* each group of assignments is evaluated once and named, as the statements are
backus_average(f, c) ==
  LET av(x) == NumSum(VMul(f, x))
      get(i, j) == Tuple([n \in 1..Len(c) |-> c[n][<<i - 1, j - 1>>]])
      two == Q(2, 1)
  IN
  Let([c11 |-> get(1, 1), c22 |-> get(2, 2), c33 |-> get(3, 3),
       c44 |-> get(4, 4), c55 |-> get(5, 5), c66 |-> get(6, 6),
       c12 |-> get(1, 2), c13 |-> get(1, 3), c15 |-> get(1, 5),
       c23 |-> get(2, 3), c25 |-> get(2, 5), c35 |-> get(3, 5),
       c46 |-> get(4, 6)],
  LAMBDA g :
  Let(VSub(VMul(g.c33, g.c55), VSq(g.c35)),
  LAMBDA A :
  Let([a33 |-> av(VDiv(g.c33, A)),
       a55 |-> av(VDiv(g.c55, A)),
       a35 |-> av(VDiv(g.c35, A)),
       B1 |-> VDiv(VSub(VMul(g.c13, g.c55), VMul(g.c15, g.c35)), A),
       B2 |-> VDiv(VSub(VMul(g.c15, g.c33), VMul(g.c13, g.c35)), A),
       B3 |-> VDiv(VSub(VMul(g.c23, g.c55), VMul(g.c25, g.c35)), A),
       B4 |-> VDiv(VSub(VMul(g.c25, g.c33), VMul(g.c23, g.c35)), A)],
  LAMBDA s :
  Let([AA |-> QInv(QSub(QMul(s.a33, s.a55), QSq(s.a35))),
       b1 |-> av(s.B1), b2 |-> av(s.B2), b3 |-> av(s.B3), b4 |-> av(s.B4),
       h44 |-> QInv(av(VRecip(g.c44))),
       a46 |-> av(VDiv(g.c46, g.c44))],
  LAMBDA t :
  Let([B5 |-> QMul(t.AA, QAdd(QAdd(QMul(s.a33, QSq(t.b1)),
                                   QMul(QMul(QMul(two, s.a35), t.b1), t.b2)),
                              QMul(s.a55, QSq(t.b2)))),
       B6 |-> QMul(t.AA, QAdd(QAdd(QAdd(QMul(QMul(s.a33, t.b1), t.b3),
                                        QMul(QMul(s.a35, t.b1), t.b4)),
                                   QMul(QMul(s.a35, t.b2), t.b3)),
                              QMul(QMul(s.a55, t.b2), t.b4))),
       B7 |-> QMul(t.AA, QAdd(QAdd(QMul(s.a33, QSq(t.b3)),
                                   QMul(QMul(QMul(two, s.a35), t.b3), t.b4)),
                              QMul(s.a55, QSq(t.b4))))],
  LAMBDA u :
  Let([[p \in Voigt2 |-> Q0] EXCEPT
        ![<<0, 0>>] = QAdd(QSub(av(g.c11),
                                av(VAdd(VMul(g.c13, s.B1), VMul(g.c15, s.B2)))), u.B5),
        ![<<1, 1>>] = QAdd(QSub(av(g.c22),
                                av(VAdd(VMul(g.c23, s.B3), VMul(g.c25, s.B4)))), u.B7),
        ![<<2, 2>>] = QMul(t.AA, s.a33),
        ![<<3, 3>>] = t.h44,
        ![<<4, 4>>] = QMul(t.AA, s.a55),
        ![<<5, 5>>] = QAdd(QSub(av(g.c66), av(VDiv(VSq(g.c46), g.c44))),
                           QMul(t.h44, QSq(t.a46))),
        ![<<0, 1>>] = QAdd(QSub(av(g.c12),
                                av(VAdd(VMul(g.c13, s.B3), VMul(g.c15, s.B4)))), u.B6),
        ![<<0, 2>>] = QAdd(QMul(QMul(t.AA, s.a33), t.b1), QMul(QMul(t.AA, s.a35), t.b2)),
        ![<<0, 4>>] = QAdd(QMul(QMul(t.AA, s.a35), t.b1), QMul(QMul(t.AA, s.a55), t.b2))],
  LAMBDA ce1 :
  Let([Mirror(Mirror(Mirror(ce1, 0, 1), 0, 2), 0, 4) EXCEPT
        ![<<1, 2>>] = QAdd(QMul(QMul(t.AA, s.a33), t.b3), QMul(QMul(t.AA, s.a35), t.b4)),
        ![<<1, 4>>] = QAdd(QMul(QMul(t.AA, s.a35), t.b3), QMul(QMul(t.AA, s.a55), t.b4))],
  LAMBDA ce2 :
  Let([Mirror(Mirror(ce2, 1, 2), 1, 4) EXCEPT ![<<2, 4>>] = QMul(t.AA, s.a35)],
  LAMBDA ce3 :
  Let([Mirror(ce3, 2, 4) EXCEPT ![<<3, 5>>] = QMul(t.h44, t.a46)],
  LAMBDA ce4 :
  Mirror(ce4, 3, 5))))))))))

\* the layer entries get() reads: thirteen per layer
backus_reads(c) == 13 * Len(c)

\* the fraction sum checked before the lengths
backus_monoclin_sumfirst(f, c) ==
  IF GtEps(QAbs(QSub(NumSum(f), Q1)))
  THEN [out |-> Raise("ValueError", "Elements of f must sum up to 1"), nread |-> 0]
  ELSE IF Len(c) # Len(f)
  THEN [out |-> Raise("IndexError",
                      "c, f, and m must have the same size and have at least one element"),
        nread |-> 0]
  ELSE [out |-> Return(Array(<<6, 6>>, backus_average(f, c))), nread |-> backus_reads(c)]

\* outcome of backus_monoclin(f, c) and the number of layer entries it read
backus_monoclin(f, c) ==
  IF Len(c) # Len(f)
  THEN [out |-> Raise("IndexError",
                      "c, f, and m must have the same size and have at least one element"),
        nread |-> 0]
  ELSE IF GtEps(QAbs(QSub(NumSum(f), Q1)))
  THEN [out |-> Raise("ValueError", "Elements of f must sum up to 1"), nread |-> 0]
  ELSE [out |-> Return(Array(<<6, 6>>, backus_average(f, c))), nread |-> backus_reads(c)]

\* ---------------------------------------------------------------- inputs
Turns == 0..MaxTurn
\* the permutations of [0, 1, 2]
Orders == {o \in [I3 -> I3] : {o[0], o[1], o[2]} = I3}

Pairs == {p \in Voigt2 : p[1] <= p[2]}
Min(a, b) == IF a <= b THEN a ELSE b
Max(a, b) == IF a <= b THEN b ELSE a

\* symmetric 6x6 matrices: the 21 matrices with one independent entry set to 1 (a
\* basis of the symmetric matrices; conversion and rotation are linear), and matrices
\* whose 21 independent entries all differ
UnitSym(u, v) == [p \in Voigt2 |-> IF <<Min(p[1], p[2]), Max(p[1], p[2])>> = u THEN v ELSE 0]
DistinctSym(v) == [p \in Voigt2 |-> v + 6 * Min(p[1], p[2]) + Max(p[1], p[2])]
SymInputs == {UnitSym(u, 1) : u \in Pairs} \cup {DistinctSym(v) : v \in 1..MaxVal}

RotInputs == {rotation_matrix(a, b, g, o) : a \in Turns, b \in Turns, g \in Turns, o \in Orders}

NoLayers == [f |-> <<>>, c |-> <<>>]
NoOrder == [a \in I3 |-> a]
Identity3 == [p \in Idx2 |-> IF p[1] = p[2] THEN 1 ELSE 0]

\* ---------------------------------------------------------------- the conversion and rotation calls
\* A caller holding a symmetric Voigt matrix and a rotation matrix applies the
\* converters and the rotators to its current array, each to an array of the rank
\* its docstring asks for.
NoCall == [kind |-> "none"]

Init ==
  /\ orig \in {Array(<<6, 6>>, M) : M \in SymInputs}
  /\ arg = orig
  /\ C = orig
  /\ R \in RotInputs
  /\ hist = <<>>
  /\ angles = <<0, 0, 0>>
  /\ order = NoOrder
  /\ out = NoCall
  /\ layers = NoLayers
  /\ nread = 0

Call_cij2cijkl ==
  /\ Len(hist) < MaxCalls
  /\ C.shape = <<6, 6>>
  /\ arg' = C
  /\ C' = Array(<<3, 3, 3, 3>>, cij2cijkl(C.data))
  /\ hist' = Append(hist, "cij2cijkl")
  /\ UNCHANGED <<orig, R, angles, order, out, layers, nread>>

Call_cijkl2cij ==
  /\ Len(hist) < MaxCalls
  /\ C.shape = <<3, 3, 3, 3>>
  /\ arg' = C
  /\ C' = Array(<<6, 6>>, cijkl2cij(C.data))
  /\ hist' = Append(hist, "cijkl2cij")
  /\ UNCHANGED <<orig, R, angles, order, out, layers, nread>>

Call_rotate_Cijkl ==
  /\ Len(hist) < MaxCalls
  /\ C.shape = <<3, 3, 3, 3>>
  /\ arg' = C
  /\ C' = Array(<<3, 3, 3, 3>>, rotate_Cijkl(C.data, R))
  /\ hist' = Append(hist, "rotate_Cijkl")
  /\ UNCHANGED <<orig, R, angles, order, out, layers, nread>>

Call_rotate_Cij ==
  /\ Len(hist) < MaxCalls
  /\ C.shape = <<6, 6>>
  /\ arg' = C
  /\ C' = Array(<<6, 6>>, rotate_Cij(C.data, R))
  /\ hist' = Append(hist, "rotate_Cij")
  /\ UNCHANGED <<orig, R, angles, order, out, layers, nread>>

Next == Call_cij2cijkl \/ Call_cijkl2cij \/ Call_rotate_Cijkl \/ Call_rotate_Cij

Spec == Init /\ [][Next]_vars

\* ---------------------------------------------------------------- claims: conversion
LastCall == IF hist = <<>> THEN "none" ELSE hist[Len(hist)]

Symmetric66(M) == \A p \in Voigt2 : M[p] = M[<<p[2], p[1]>>]

\* C1: converting a symmetric 6x6 matrix to the tensor and back with cijkl2cij gives
\* the matrix again, equal in all 36 entries.
C1_RoundTrip ==
  hist = <<"cij2cijkl", "cijkl2cij">>
    => /\ Symmetric66(orig.data)
       /\ C.shape = <<6, 6>>
       /\ \A p \in Voigt2 : C.data[p] = orig.data[p]

C1_Witness ==
  /\ hist = <<"cij2cijkl", "cijkl2cij">>
  /\ orig.data = DistinctSym(1)
  /\ C = orig

\* C2: the assignment table of cij2cijkl writes every one of the 81 tensor entries,
\* and for a symmetric matrix M entry (i,j,k,l) holds M[ij2I(i,j), ij2I(k,l)].
C2_TableAgreesWithIj2I ==
  /\ {cij2cijkl_table[n][1] : n \in 1..Len(cij2cijkl_table)} = Idx4
  /\ LastCall = "cij2cijkl"
       => \A q \in Idx4 :
            C.data[q] = arg.data[<<ij2I(q[1], q[2]), ij2I(q[3], q[4])>>]

C2_Witness ==
  /\ hist = <<"cij2cijkl">>
  /\ arg.data = DistinctSym(1)
  /\ C.data[<<1, 2, 0, 1>>] = arg.data[<<3, 5>>]
  /\ C.data[<<1, 0, 2, 1>>] = arg.data[<<3, 5>>]

\* ---------------------------------------------------------------- claims: rotation
\* The rotation the specification writes down: the summed index is the second index
\* of each factor of R.
ContractSecond(T, Rm) ==
  [q \in Idx4 |->
     Sum3(LAMBDA a : Sum3(LAMBDA b : Sum3(LAMBDA c : Sum3(LAMBDA d :
       Rm[<<q[1], a>>] * Rm[<<q[2], b>>] * Rm[<<q[3], c>>] * Rm[<<q[4], d>>]
       * T[<<a, b, c, d>>]))))]

\* C3: rotate_Cijkl(T, R)[i,j,k,l] is the sum over p,q,r,s of
\* R[i,p] R[j,q] R[k,r] R[l,s] T[p,q,r,s], and rotate_Cij(M, R) is cijkl2cij of that
\* tensor computed from cij2cijkl(M).
C3_RotationFormula ==
  /\ LastCall = "rotate_Cijkl" => C.data = ContractSecond(arg.data, R)
  /\ LastCall = "rotate_Cij"
       => C.data = cijkl2cij(ContractSecond(cij2cijkl(arg.data), R))

\* The three symmetries of a stiffness tensor.
TensorSymmetric(T) ==
  \A q \in Idx4 : /\ T[q] = T[<<q[3], q[4], q[1], q[2]>>]
                  /\ T[q] = T[<<q[2], q[1], q[3], q[4]>>]
                  /\ T[q] = T[<<q[1], q[2], q[4], q[3]>>]

NoArray == Array(<<0>>, <<>>)
Zero3 == [p \in Idx2 |-> 0]

InitRotation ==
  /\ angles \in Turns \X Turns \X Turns
  /\ order \in Orders
  /\ R = Zero3
  /\ hist = <<>>
  /\ orig = NoArray
  /\ arg = NoArray
  /\ C = NoArray
  /\ out = NoCall
  /\ layers = NoLayers
  /\ nread = 0

Call_rotation_matrix ==
  /\ hist = <<>>
  /\ R' = rotation_matrix(angles[1], angles[2], angles[3], order)
  /\ out' = Return(R')
  /\ hist' = <<"rotation_matrix">>
  /\ UNCHANGED <<orig, arg, C, angles, order, layers, nread>>

NextRotation == Call_rotation_matrix

SpecRotation == InitRotation /\ [][NextRotation]_vars

Transpose3(A) == [p \in Idx2 |-> A[<<p[2], p[1]>>]]

\* The elementary rotations as the specification describes them: the rotation about an
\* axis leaves that axis fixed and has (cos, sin; -sin, cos) on the other two, the
\* rotation about y with the signs of sin exchanged.
AxisRotation(axis, k) ==
  CASE axis = 0 -> Mat3(<<1, 0, 0>>, <<0, cos(k), sin(k)>>, <<0, -sin(k), cos(k)>>)
    [] axis = 1 -> Mat3(<<cos(k), 0, -sin(k)>>, <<0, 1, 0>>, <<sin(k), 0, cos(k)>>)
    [] OTHER    -> Mat3(<<cos(k), sin(k), 0>>, <<-sin(k), cos(k), 0>>, <<0, 0, 1>>)

\* C5: for angles that are multiples of a quarter turn and every order that is a
\* permutation of [0,1,2], the matrix rotation_matrix returns times its transpose is
\* the identity, and it is the product of the elementary rotations
\* R_order[2] * R_order[1] * R_order[0].
C5_Orthogonal ==
  LastCall = "rotation_matrix"
    => /\ matmul(R, Transpose3(R)) = Identity3
       /\ R = matmul(AxisRotation(order[2], angles[order[2] + 1]),
                     matmul(AxisRotation(order[1], angles[order[1] + 1]),
                            AxisRotation(order[0], angles[order[0] + 1])))

C5_Witness ==
  /\ LastCall = "rotation_matrix"
  /\ angles = <<1, 1, 1>>
  /\ order[0] = 2 /\ order[1] = 0 /\ order[2] = 1
  /\ R # Identity3
  /\ matmul(R, Transpose3(R)) = Identity3

\* ---------------------------------------------------------------- rotate_C on arrays of any shape
\* index tuples of an array of the given shape
Indices(shape) ==
  CASE Len(shape) = 1 -> {<<i>> : i \in 0..(shape[1] - 1)}
    [] Len(shape) = 2 -> (0..(shape[1] - 1)) \X (0..(shape[2] - 1))
    [] Len(shape) = 3 -> (0..(shape[1] - 1)) \X (0..(shape[2] - 1)) \X (0..(shape[3] - 1))
    [] OTHER -> (0..(shape[1] - 1)) \X (0..(shape[2] - 1)) \X (0..(shape[3] - 1))
                \X (0..(shape[4] - 1))

\* an array of the given shape: a 2-d array carries DistinctSym(v) where it has room,
\* a tensor is cij2cijkl(DistinctSym(v)), every other entry is v
Filled(shape, v) ==
  Array(shape,
        IF shape = <<3, 3, 3, 3>> THEN cij2cijkl(DistinctSym(v))
        ELSE [p \in Indices(shape) |->
                IF Len(shape) = 2 /\ p \in Voigt2 THEN DistinctSym(v)[p] ELSE v])

Shapes == {<<6, 6>>, <<3, 3, 3, 3>>, <<6, 7>>, <<6, 5>>, <<3, 3>>, <<6>>, <<3, 3, 3>>}
ShapeInputs == {Filled(sh, v) : sh \in Shapes, v \in 1..MaxVal}

InitDispatch ==
  /\ orig \in ShapeInputs
  /\ angles \in Turns \X Turns \X Turns
  /\ order \in Orders
  /\ arg = orig
  /\ C = orig
  /\ R = Zero3
  /\ hist = <<>>
  /\ out = NoCall
  /\ layers = NoLayers
  /\ nread = 0

Call_rotate_C ==
  /\ hist = <<>>
  /\ arg' = C
  /\ R' = rotation_matrix(angles[1], angles[2], angles[3], order)
  /\ out' = rotate_C(C, angles[1], angles[2], angles[3], order)
  /\ C' = IF out'.kind = "return" THEN out'.value ELSE C
  /\ hist' = <<"rotate_C">>
  /\ UNCHANGED <<orig, angles, order, layers, nread>>

NextDispatch == Call_rotate_C

SpecDispatch == InitDispatch /\ [][NextDispatch]_vars

\* C8: rotate_C returns rotate_Cij(C, R) for a 6x6 Voigt matrix and rotate_Cijkl(C, R),
\* a 3x3x3x3 tensor, for a 3x3x3x3 tensor, with R = rotation_matrix(alpha, beta,
\* gamma, order); in both cases the call returns.
C8_Dispatch ==
  LastCall = "rotate_C"
    => LET Rm == rotation_matrix(angles[1], angles[2], angles[3], order)
       IN  /\ arg.shape = <<6, 6>>
                => out = Return(Array(<<6, 6>>, rotate_Cij(arg.data, Rm)))
           /\ arg.shape = <<3, 3, 3, 3>>
                => out = Return(Array(<<3, 3, 3, 3>>, rotate_Cijkl(arg.data, Rm)))

\* C9: for an array whose shape is neither (6,6) nor (3,3,3,3), rotate_C raises an
\* error and returns no rotated result: it never reads a sub-block of a wrongly
\* shaped input and returns a value.  (The claim also names the error, TypeError
\* 'C must either be in Voigt or Tensor notation'; stated here is the part every
\* reading of it shares.)
C9_ShapeRejected ==
  (LastCall = "rotate_C" /\ arg.shape \notin {<<6, 6>>, <<3, 3, 3, 3>>})
    => (out.kind = "raise" /\ C = arg)

\* ---------------------------------------------------------------- Backus averaging: inputs
\* the entries of the monoclinic pattern above the diagonal, and the rest
PatternPairs == {<<0, 1>>, <<0, 2>>, <<0, 4>>, <<1, 2>>, <<1, 4>>, <<2, 4>>, <<3, 5>>}
OffPatternPairs == {<<0, 3>>, <<0, 5>>, <<1, 3>>, <<1, 5>>, <<2, 3>>, <<2, 5>>, <<3, 4>>, <<4, 5>>}
Upper(p) == <<Min(p[1], p[2]), Max(p[1], p[2])>>

\* a symmetric monoclinic stiffness with all pattern entries non-zero; the entries are
\* small so that the averages stay within 32-bit numerators and denominators
MonoBase(v) ==
  [p \in Voigt2 |->
     LET u == Upper(p)
     IN  CASE u = <<0, 0>> -> 5 + v [] u = <<1, 1>> -> 4 + v [] u = <<2, 2>> -> 1 + v
           [] u = <<3, 3>> -> v     [] u = <<4, 4>> -> 1     [] u = <<5, 5>> -> 2 + v
           [] u = <<0, 1>> -> 3 [] u = <<0, 2>> -> 2 [] u = <<0, 4>> -> 1
           [] u = <<1, 2>> -> 2 [] u = <<1, 4>> -> 1 [] u = <<2, 4>> -> 1
           [] u = <<3, 5>> -> 1
           [] OTHER -> 0]
\* MonoBase(1) with one entry (and its mirror) raised by v
Bumped(u, v) == [p \in Voigt2 |-> MonoBase(1)[p] + (IF Upper(p) = u THEN v ELSE 0)]
\* an isotropic stiffness with Lame parameters lambda = v and mu = 1
Iso(v) ==
  [p \in Voigt2 |->
     IF p[1] = p[2] THEN (IF p[1] <= 2 THEN v + 2 ELSE 1)
     ELSE IF p[1] <= 2 /\ p[2] <= 2 THEN v ELSE 0]
\* a layer without shear stiffness c44
NoShear(v) == [p \in Voigt2 |-> IF p = <<3, 3>> THEN 0 ELSE MonoBase(v)[p]]
\* a matrix that is not symmetric and has no zero entry
Asym(v) == [p \in Voigt2 |-> MonoBase(v)[p] + (IF p[1] > p[2] THEN v ELSE 1)]

ToQ(M) == [p \in Voigt2 |-> Q(M[p], 1)]

CoreMatrices ==
  {ToQ(M) : M \in {MonoBase(1), Iso(1), zeros66, Asym(1), NoShear(1), Bumped(<<0, 3>>, 1)}}
LayerMatrices ==
  CoreMatrices
  \cup {ToQ(Bumped(u, v)) : u \in Pairs, v \in 1..MaxVal}
  \cup {ToQ(M) : M \in {MonoBase(v) : v \in 1..MaxVal} \cup {Iso(v) : v \in 1..MaxVal}
                       \cup {Asym(v) : v \in 1..MaxVal} \cup {NoShear(v) : v \in 1..MaxVal}}

SeqsUpTo(S, n) == UNION {[1..k -> S] : k \in 0..n}

\* stacks: none, any single layer, or up to MaxLayers core layers
Stacks == {<<M>> : M \in LayerMatrices} \cup SeqsUpTo(CoreMatrices, MaxLayers)
\* volume fractions, in tenths
Fractions == {Q(k, 10) : k \in {0, 4, 5, 6, 10}}
FractionLists == SeqsUpTo(Fractions, MaxLayers)

InitBackus ==
  /\ layers \in [f : FractionLists, c : Stacks]
  /\ hist = <<>>
  /\ out = NoCall
  /\ nread = 0
  /\ orig = NoArray
  /\ arg = NoArray
  /\ C = NoArray
  /\ R = Zero3
  /\ angles = <<0, 0, 0>>
  /\ order = NoOrder

Call_backus_monoclin ==
  /\ hist = <<>>
  /\ LET r == backus_monoclin(layers.f, layers.c)
     IN  /\ out' = r.out
         /\ nread' = r.nread
         /\ C' = IF r.out.kind = "return" THEN r.out.value ELSE C
  /\ hist' = <<"backus_monoclin">>
  /\ UNCHANGED <<orig, arg, R, angles, order, layers>>

NextBackus == Call_backus_monoclin

SpecBackus == InitBackus /\ [][NextBackus]_vars

\* ---------------------------------------------------------------- claims: Backus averaging
\* the sum of the fractions in tenths, as an integer
RECURSIVE TenthsSum(_)
TenthsSum(f) ==
  IF f = <<>> THEN 0
  ELSE (f[1][1] * 10) \div f[1][2] + TenthsSum(Tail(f))

\* C6: backus_monoclin raises IndexError when the lists differ in length, and
\* otherwise ValueError when the fractions do not sum to 1 (the empty LayerSet and a
\* sum of 0.9 included); in both cases no layer entry has been read, nothing has been
\* averaged and no matrix is returned; the length check comes first.
C6_FailFast ==
  LastCall = "backus_monoclin"
    => /\ Len(layers.c) # Len(layers.f)
            => (out.kind = "raise" /\ out.exc = "IndexError" /\ nread = 0 /\ C = NoArray)
       /\ (Len(layers.c) = Len(layers.f) /\ TenthsSum(layers.f) # 10)
            => (out.kind = "raise" /\ out.exc = "ValueError" /\ nread = 0 /\ C = NoArray)

C6_Witness ==
  /\ LastCall = "backus_monoclin"
  /\ layers.f = <<Q(4, 10), Q(5, 10)>>
  /\ Len(layers.c) = 2
  /\ out.kind = "raise" /\ out.exc = "ValueError"
  /\ nread = 0

\* a single layer of fraction 1 whose matrix M is symmetric with M[3,3] # 0 and
\* M[2,2]*M[4,4] - M[2,4]^2 # 0
SingleLayerCase ==
  /\ LastCall = "backus_monoclin"
  /\ layers.f = <<Q1>>
  /\ Len(layers.c) = 1
  /\ LET M == layers.c[1]
     IN  /\ \A p \in Voigt2 : M[p] = M[<<p[2], p[1]>>]
         /\ M[<<3, 3>>] # Q0
         /\ QSub(QMul(M[<<2, 2>>], M[<<4, 4>>]), QSq(M[<<2, 4>>])) # Q0

\* C7 as stated: for such a single layer backus_monoclin returns a matrix equal to M
\* in all 36 entries.
C7_Degeneracy_AnySymmetric ==
  SingleLayerCase
    => /\ out.kind = "return"
       /\ \A p \in Voigt2 : QEq(out.value.data[p], layers.c[1][p])

\* C7 amended: for such a single layer backus_monoclin returns M on the diagonal and
\* on the monoclinic pattern (0,1), (0,2), (0,4), (1,2), (1,4), (2,4), (3,5) and
\* mirrors, and zero in the sixteen other entries; so the result equals M in all 36
\* entries when those sixteen entries of M are zero.
C7_Degeneracy_Monoclinic ==
  SingleLayerCase
    => /\ out.kind = "return"
       /\ \A p \in Voigt2 :
            QEq(out.value.data[p],
                IF Upper(p) \in OffPatternPairs THEN Q0 ELSE layers.c[1][p])
       /\ (\A p \in Voigt2 : Upper(p) \in OffPatternPairs => layers.c[1][p] = Q0)
            => \A p \in Voigt2 : QEq(out.value.data[p], layers.c[1][p])

C7_Witness ==
  /\ SingleLayerCase
  /\ layers.c[1] = ToQ(Bumped(<<2, 4>>, 1))
  /\ out.kind = "return"
  /\ out.value.data = layers.c[1]

====
